---- MODULE Spec2Model ----
(***************************************************************************)
(* Model of the transaction job queue of the REST server (src/src/index.ts *)
(* lines 117-534, the jobs module) and of the jobs router                  *)
(* (src/unnamed/part_001 lines 1-117).                                     *)
(*                                                                         *)
(* The queue, the worker and the queue scheduler are BullMQ objects.  The  *)
(* jobs module imports QueueScheduler, a class that exists only in BullMQ  *)
(* 1.x, so the library steps are modelled as that major version performs   *)
(* them:                                                                   *)
(*   - a processor that returns moves the job to completed and stores the  *)
(*     returned value; attemptsMade is left alone;                         *)
(*   - a processor that throws adds one to attemptsMade, stores the error  *)
(*     message as failedReason and, while attemptsMade < attempts, moves   *)
(*     the job to delayed with timestamp now + backoff; otherwise to       *)
(*     failed;                                                             *)
(*   - only the queue scheduler promotes delayed jobs and recovers stalled *)
(*     ones.                                                               *)
(* A stall is modelled as the loss of the executing worker (the attempt    *)
(* never reports back).  Time is kept relative: a delayed job carries the  *)
(* ticks left until its delay timestamp, and finishedOn is the rank of the *)
(* job among the finished ones.                                            *)
(***************************************************************************)
EXTENDS Integers, Sequences, FiniteSets, TLC

\* ------------------------------------------------------------------ bounds
MaxJobs == 2            \* jobs enqueued in one behaviour
MaxAttempts == 4        \* the attempt limit is drawn from 1..MaxAttempts
submitJobBackoffDelay == 1   \* base backoff delay D, in clock ticks
submitJobConcurrency == 1    \* worker slots
MaxErrors == 1          \* error events the worker emits in one behaviour
maxCompletedSubmitJobs == 1  \* retention cap of completed jobs
maxFailedSubmitJobs == 1     \* retention cap of failed jobs

\* BullMQ default of QueueScheduler's maxStalledCount
maxStalledCount == 1

\* --------------------------------------------------------------- optionals
Undefined == <<>>
Some(x) == <<x>>
IsDefined(o) == o # Undefined

\* ------------------------------------------------------------------ inputs
Org1MSP == "Org1MSP"
Org2MSP == "Org2MSP"
\* an identity for which main() registers no contracts
OtherMSP == "OtherMSP"
MspIds == {Org1MSP, Org2MSP, OtherMSP}

\* app.locals[mspId] is set for the two organisations only
RegisteredMspIds == {Org1MSP, Org2MSP}

\* createIdentity, createSigner and createGateway: what a gateway signs with
\* and the peer it talks to
createIdentity(mspId, certificate) == [mspId |-> mspId, credentials |-> certificate]

createSigner(privateKey) == [key |-> privateKey]

createGateway(identity, signer, client) ==
  [identity |-> identity, signer |-> signer, client |-> client]

\* main: the contracts it stores in app.locals, by MSP id, each with the
\* gateway it was got from
Contracts ==
  (Org1MSP :> createGateway(createIdentity(Org1MSP, "certificateOrg1"),
                            createSigner("privateKeyOrg1"), "peerAddressOrg1"))
    @@ (Org2MSP :> createGateway(createIdentity(Org1MSP, "certificateOrg1"),
                                 createSigner("privateKeyOrg1"), "peerAddressOrg2"))

\* values of a JSON request body: the JavaScript type and the text that
\* String(value) gives
JsBoolean(b) == [type |-> "boolean", text |-> IF b THEN "true" ELSE "false"]
JsString(str) == [type |-> "string", text |-> str]
JsNumber(digits) == [type |-> "number", text |-> digits]
JsUndefined == [type |-> "undefined", text |-> ""]

\* the truthiness of a value, as a JavaScript condition takes it
Truthy(v) ==
  CASE v.type = "boolean" -> v.text = "true"
    [] v.type = "string" -> v.text # ""
    [] v.type = "number" -> v.text # "0"
    [] OTHER -> FALSE

\* an array of strings, or a value that is no array
JsArray(items) == [array |-> TRUE, items |-> items]
NoArray == [array |-> FALSE, items |-> <<>>]

\* create-job requests: the caller's MSP ID (req.user) and the body accepted
\* by the POST handler.  The queue outlives the process, so it can hold jobs
\* of an MSP ID that the running process has no contracts for.
JobRequests ==
  { [user |-> Org1MSP, object |-> TRUE, transaction |-> "Transfer",
     submit |-> JsBoolean(TRUE), arguments |-> JsArray(<<"alice", "bob", "10">>)],
    [user |-> Org2MSP, object |-> TRUE, transaction |-> "ReadAsset",
     submit |-> JsBoolean(FALSE), arguments |-> JsArray(<<"asset1">>)],
    [user |-> OtherMSP, object |-> TRUE, transaction |-> "Transfer",
     submit |-> JsBoolean(TRUE), arguments |-> JsArray(<<"alice", "bob", "10">>)] }

\* create-job requests with a body that is not as the API describes it: no
\* object, no transaction name, a submit flag that is the text or the number
\* of a boolean or neither, arguments that are no array
OddRequests ==
  { [user |-> Org1MSP, object |-> FALSE, transaction |-> "",
     submit |-> JsUndefined, arguments |-> NoArray],
    [user |-> Org1MSP, object |-> TRUE, transaction |-> "",
     submit |-> JsBoolean(TRUE), arguments |-> JsArray(<<"asset1">>)],
    [user |-> Org1MSP, object |-> TRUE, transaction |-> "ReadAsset",
     submit |-> JsString("false"), arguments |-> JsArray(<<"asset1">>)],
    [user |-> Org1MSP, object |-> TRUE, transaction |-> "ReadAsset",
     submit |-> JsNumber("1"), arguments |-> JsArray(<<"asset1">>)],
    [user |-> Org1MSP, object |-> TRUE, transaction |-> "ReadAsset",
     submit |-> JsString("yes"), arguments |-> JsArray(<<"asset1">>)],
    [user |-> Org1MSP, object |-> TRUE, transaction |-> "ReadAsset",
     submit |-> JsUndefined, arguments |-> JsArray(<<"asset1">>)],
    [user |-> Org2MSP, object |-> TRUE, transaction |-> "ReadAsset",
     submit |-> JsBoolean(FALSE), arguments |-> NoArray] }

\* byte strings a transaction can return
LedgerResults == { <<>>, <<79, 75>> }

\* errors thrown by submitTransaction / evatuateTransaction
LedgerErrors ==
  { [kind |-> "Timeout", name |-> "Error", message |-> "deadline exceeded"],
    [kind |-> "InvalidInvocation", name |-> "Error", message |-> "stale proposal"],
    [kind |-> "Rejected", name |-> "Error", message |-> "asset exists"],
    [kind |-> "Unknown", name |-> "TypeError", message |-> "unexpected"] }

BackoffTypes == {"fixed", "exponential"}

\* ------------------------------------------------------------------- state
VARIABLES
  main,        \* the process: its environment, start-up position, what it created
  cfg,         \* configuration read at start: attempts, backoffType, scheduler
  jobs,        \* the queue: job id -> job record, for the jobs it holds
  nextId,      \* next job id the queue assigns
  processing,  \* ids of the jobs the worker is executing (its busy slots)
  finished,    \* number of jobs finished so far (orders finishedOn)
  obs,         \* per job: what its attempts did (history, not program state)
  response     \* last answer of the jobs router to a read request

vars == <<cfg, main, jobs, nextId, processing, finished, obs, response>>

JobIds == DOMAIN jobs

\* ------------------------------------------------------- pure functions
\* TextDecoder.decode on the byte strings of LedgerResults
ByteChar(b) ==
  CASE b = 79 -> "O"
    [] b = 75 -> "K"
    [] OTHER -> "?"

RECURSIVE Utf8Decode(_)
Utf8Decode(bytes) ==
  IF bytes = <<>> THEN ""
  ELSE ByteChar(Head(bytes)) \o Utf8Decode(Tail(bytes))

\* `${err}` for an Error object
ErrString(err) == err.name \o ": " \o err.message

\* classification of a thrown error
getRetryAction(err) ==
  CASE err.kind \in {"Timeout", "Unavailable"} -> "WithExistingTransactionId"
    [] err.kind = "InvalidInvocation" -> "WithNewTransactionId"
    [] OTHER -> "None"

RECURSIVE Pow2(_)
Pow2(n) == IF n <= 0 THEN 1 ELSE 2 * Pow2(n - 1)

\* variant: the exponential strategy is never selected
BackoffIgnoresType(type, attemptsMade) == submitJobBackoffDelay

\* BullMQ's built-in backoff strategies, with the options of initJobQueue
Backoff(type, attemptsMade) ==
  IF type = "exponential"
  THEN Pow2(attemptsMade - 1) * submitJobBackoffDelay
  ELSE submitJobBackoffDelay

JobsInState(s) == { j \in JobIds : jobs[j].state = s }

\* `response` is the answer of the jobs router in the step just taken; a step
\* that is not a request leaves none
NoResponse == [status |-> 0]

\* ------------------------------------------------------- queue internals
\* k finished after j (the completed and failed sets are ordered by finishedOn)
Newer(js, k, j) == js[k].finishedOn > js[j].finishedOn

\* variant: the oldest `cap` jobs of state st are kept
KeepOldest(js, st, cap) ==
  LET S == { j \in DOMAIN js : js[j].state = st }
      K == { j \in S : Cardinality({ k \in S : js[k].finishedOn < js[j].finishedOn }) < cap }
      D == (DOMAIN js \ S) \cup K
  IN  [ j \in D |-> js[j] ]

\* removeOnComplete / removeOnFail given as a number: keep the newest `cap`
\* jobs of state st, remove the older ones
KeepNewest(js, st, cap) ==
  LET S == { j \in DOMAIN js : js[j].state = st }
      K == { j \in S : Cardinality({ k \in S : Newer(js, k, j) }) < cap }
      D == (DOMAIN js \ S) \cup K
  IN  [ j \in D |-> js[j] ]

Restrict(f, D) == [ j \in D |-> f[j] ]

\* the finished count after job j was moved, the queue then being js
FinishedAfter(j, js) ==
  IF j \in DOMAIN js /\ js[j].state \in {"waiting", "delayed"}
  THEN finished
  ELSE finished + 1

\* variant: a completed run is counted in attemptsMade as well
MoveToCompletedCounting(j, result) ==
  LET js == [jobs EXCEPT ![j].state = "completed",
                         ![j].attemptsMade = @ + 1,
                         ![j].returnvalue = Some(result),
                         ![j].finishedOn = finished + 1]
  IN  KeepNewest(js, "completed", maxCompletedSubmitJobs)

\* Job.moveToCompleted: store the return value, apply removeOnComplete
MoveToCompleted(j, result) ==
  LET js == [jobs EXCEPT ![j].state = "completed",
                         ![j].returnvalue = Some(result),
                         ![j].finishedOn = finished + 1]
  IN  KeepNewest(js, "completed", maxCompletedSubmitJobs)

\* variant: one retry more than the attempts option allows
MoveToFailedOffByOne(j, err) ==
  LET made == jobs[j].attemptsMade + 1
      js0 == [jobs EXCEPT ![j].attemptsMade = made,
                          ![j].failedReason = Some(err.message)]
  IN  IF made <= cfg.attempts
      THEN [js0 EXCEPT ![j].state = "delayed",
                       ![j].delay = Backoff(cfg.backoffType, made)]
      ELSE KeepNewest([js0 EXCEPT ![j].state = "failed",
                                  ![j].finishedOn = finished + 1],
                      "failed", maxFailedSubmitJobs)

\* Job.moveToFailed: count the attempt, then retry with backoff or fail
MoveToFailed(j, err) ==
  LET made == jobs[j].attemptsMade + 1
      js0 == [jobs EXCEPT ![j].attemptsMade = made,
                          ![j].failedReason = Some(err.message)]
  IN  IF made < cfg.attempts
      THEN [js0 EXCEPT ![j].state = "delayed",
                       ![j].delay = Backoff(cfg.backoffType, made)]
      ELSE KeepNewest([js0 EXCEPT ![j].state = "failed", ![j].finishedOn = finished + 1],
                      "failed", maxFailedSubmitJobs)

\* ------------------------------------------------------------ the worker
\* variant: the result for a missing contract carries an error text
NoContractResultWithError ==
  [transactionError |-> <<"Contract not found">>, transactionPayload |-> <<>>]

NoContractResult ==
  [transactionError |-> Undefined, transactionPayload |-> Undefined]

\* variant: the decoded payload lands in the error field
SuccessResultAsError(bytes) ==
  [transactionError |-> Some(Utf8Decode(bytes)), transactionPayload |-> Undefined]

SuccessResult(bytes) ==
  [transactionError |-> Undefined, transactionPayload |-> Some(Utf8Decode(bytes))]

\* variant: the error text lands in the payload field
FatalResultAsPayload(err) ==
  [transactionError |-> Undefined, transactionPayload |-> Some(ErrString(err))]

\* variant: a fatal error is reported in both fields of the result
FatalResultBothSet(err) ==
  [transactionError |-> Some(ErrString(err)), transactionPayload |-> Some(ErrString(err))]

FatalResult(err) ==
  [transactionError |-> Some(ErrString(err)), transactionPayload |-> Undefined]

NoError == [kind |-> "", name |-> "", message |-> ""]

\* variant: every job is submitted
LedgerCallAlwaysSubmit(j) == "submit"

\* the ledger call an attempt makes for job j
LedgerCall(j) == IF Truthy(jobs[j].data.submit) THEN "submit" ELSE "evaluate"

\* contract.newProposal and proposal.getTransactionId: the proposal of the
\* n-th ledger call for job j, with a transaction id of its own
NewProposal(j, n) ==
  [ transactionName |-> jobs[j].data.transactionName,
    arguments |-> jobs[j].data.transactionArgs,
    transactionId |-> <<j, n>>,
    identity |-> main.contracts[jobs[j].data.mspId].identity,
    signer |-> main.contracts[jobs[j].data.mspId].signer ]

\* history of a job: an attempt ended in the way `kind`, having made the
\* ledger call `call` ("none" if it made none), which returned `bytes` or
\* threw `err`
Observe(j, kind, call, bytes, err) ==
  [obs EXCEPT ![j].runs = @ + 1,
              ![j].last = kind,
              ![j].submits = IF call = "submit" THEN @ + 1 ELSE @,
              ![j].evaluates = IF call = "evaluate" THEN @ + 1 ELSE @,
              ![j].calls = IF call = "none" THEN @
                           ELSE Append(@, [fn |-> call,
                                           proposal |-> NewProposal(j, Len(@) + 1)]),
              ![j].bytes = bytes,
              ![j].err = err,
              ![j].waited = 0,
              ![j].savedState = jobs[j].data.transactionState]

\* variant: a missing contract is thrown as an error instead of returned
ProcessNoContractThrows(j) ==
  /\ j \in processing
  /\ jobs[j].data.mspId \notin RegisteredMspIds
  /\ jobs' = MoveToFailed(j, [kind |-> "NoContract", name |-> "Error",
                              message |-> "Contract not found"])
  /\ obs' = Restrict(Observe(j, "NoContract", "none", <<>>, NoError), DOMAIN jobs')
  /\ processing' = processing \ {j}
  /\ finished' = FinishedAfter(j, jobs')
  /\ response' = NoResponse
  /\ UNCHANGED <<cfg, main, nextId>>

\* processTransactionJob, contract not found: return an empty result
ProcessNoContract(j) ==
  /\ j \in processing
  /\ jobs[j].data.mspId \notin RegisteredMspIds
  /\ jobs' = MoveToCompleted(j, NoContractResult)
  /\ obs' = Restrict(Observe(j, "NoContract", "none", <<>>, NoError), DOMAIN jobs')
  /\ processing' = processing \ {j}
  /\ finished' = FinishedAfter(j, jobs')
  /\ response' = NoResponse
  /\ UNCHANGED <<cfg, main, nextId>>

\* processTransactionJob, the transaction returns: return its decoded payload
ProcessSuccess(j, bytes) ==
  /\ j \in processing
  /\ jobs[j].data.mspId \in RegisteredMspIds
  /\ jobs' = MoveToCompleted(j, SuccessResult(bytes))
  /\ obs' = Restrict(Observe(j, "Success", LedgerCall(j), bytes, NoError), DOMAIN jobs')
  /\ processing' = processing \ {j}
  /\ finished' = FinishedAfter(j, jobs')
  /\ response' = NoResponse
  /\ UNCHANGED <<cfg, main, nextId>>

\* variant: the job of a retry is stored again without its arguments
ProcessErrorDropsArguments(j, err) ==
  /\ j \in processing
  /\ jobs[j].data.mspId \in RegisteredMspIds
  /\ jobs' = IF getRetryAction(err) = "None"
             THEN MoveToCompleted(j, FatalResult(err))
             ELSE [k \in DOMAIN MoveToFailed(j, err) |->
                     IF k = j
                     THEN [MoveToFailed(j, err)[k] EXCEPT !.data.transactionArgs = <<>>]
                     ELSE MoveToFailed(j, err)[k]]
  /\ obs' = Restrict(Observe(j, getRetryAction(err), LedgerCall(j), <<>>, err), DOMAIN jobs')
  /\ processing' = processing \ {j}
  /\ finished' = FinishedAfter(j, jobs')
  /\ response' = NoResponse
  /\ UNCHANGED <<cfg, main, nextId>>

\* variant: a fatal error is rethrown like a retryable one
ProcessErrorRethrowsFatal(j, err) ==
  /\ j \in processing
  /\ jobs[j].data.mspId \in RegisteredMspIds
  /\ jobs' = MoveToFailed(j, err)
  /\ obs' = Restrict(Observe(j, getRetryAction(err), LedgerCall(j), <<>>, err), DOMAIN jobs')
  /\ processing' = processing \ {j}
  /\ finished' = FinishedAfter(j, jobs')
  /\ response' = NoResponse
  /\ UNCHANGED <<cfg, main, nextId>>

\* variant: a retry with a new transaction id stores a transaction state
\* instead of clearing it
ProcessErrorSavesState(j, err) ==
  /\ j \in processing
  /\ jobs[j].data.mspId \in RegisteredMspIds
  /\ jobs' = IF getRetryAction(err) = "None"
             THEN MoveToCompleted(j, FatalResult(err))
             ELSE IF getRetryAction(err) = "WithNewTransactionId"
             THEN [MoveToFailed(j, err) EXCEPT
                     ![j].data.transactionState = Some("state")]
             ELSE MoveToFailed(j, err)
  /\ obs' = Restrict(Observe(j, getRetryAction(err), LedgerCall(j), <<>>, err), DOMAIN jobs')
  /\ processing' = processing \ {j}
  /\ finished' = FinishedAfter(j, jobs')
  /\ response' = NoResponse
  /\ UNCHANGED <<cfg, main, nextId>>

\* variant: a retry keeps only the id of the transaction that failed
ProcessErrorReplacesIds(j, err) ==
  /\ j \in processing
  /\ jobs[j].data.mspId \in RegisteredMspIds
  /\ jobs' = IF getRetryAction(err) = "None"
             THEN MoveToCompleted(j, FatalResult(err))
             ELSE [MoveToFailed(j, err) EXCEPT
                     ![j].data.transactionIds = << <<j, Len(obs[j].calls) + 1>> >>]
  /\ obs' = Restrict(Observe(j, getRetryAction(err), LedgerCall(j), <<>>, err), DOMAIN jobs')
  /\ processing' = processing \ {j}
  /\ finished' = FinishedAfter(j, jobs')
  /\ response' = NoResponse
  /\ UNCHANGED <<cfg, main, nextId>>

\* processTransactionJob, the transaction throws
ProcessError(j, err) ==
  /\ j \in processing
  /\ jobs[j].data.mspId \in RegisteredMspIds
  /\ jobs' = IF getRetryAction(err) = "None"
             THEN MoveToCompleted(j, FatalResult(err))
             ELSE MoveToFailed(j, err)
  /\ obs' = Restrict(Observe(j, getRetryAction(err), LedgerCall(j), <<>>, err), DOMAIN jobs')
  /\ processing' = processing \ {j}
  /\ finished' = FinishedAfter(j, jobs')
  /\ response' = NoResponse
  /\ UNCHANGED <<cfg, main, nextId>>

\* the worker exists and has not stopped
WorkerRunning == IsDefined(main.worker) /\ main.worker[1].running

\* variant: the worker takes a waiting job whether or not a slot is free
ClaimIgnoringSlots(j) ==
  /\ WorkerRunning
  /\ j \in JobIds
  /\ jobs[j].state = "waiting"
  /\ jobs' = [jobs EXCEPT ![j].state = "active"]
  /\ processing' = processing \cup {j}
  /\ obs' = [obs EXCEPT ![j].started = @ + 1]
  /\ response' = NoResponse
  /\ UNCHANGED <<cfg, main, nextId, finished>>

\* variant: the worker also takes a job that is already active
ClaimAlsoActive(j) ==
  /\ WorkerRunning
  /\ Cardinality(processing) < cfg.concurrency
  /\ j \in JobIds
  /\ jobs[j].state \in {"waiting", "active"}
  /\ jobs' = [jobs EXCEPT ![j].state = "active"]
  /\ processing' = processing \cup {j}
  /\ obs' = [obs EXCEPT ![j].started = @ + 1]
  /\ response' = NoResponse
  /\ UNCHANGED <<cfg, main, nextId, finished>>

\* the worker takes a waiting job into a free slot
Claim(j) ==
  /\ WorkerRunning
  /\ Cardinality(processing) < cfg.concurrency
  /\ j \in JobIds
  /\ jobs[j].state = "waiting"
  /\ jobs' = [jobs EXCEPT ![j].state = "active"]
  /\ processing' = processing \cup {j}
  /\ obs' = [obs EXCEPT ![j].started = @ + 1]
  /\ response' = NoResponse
  /\ UNCHANGED <<cfg, main, nextId, finished>>

\* variant: no listener for the worker's error event, the error stops the
\* worker
WorkerErrorUnhandled ==
  /\ WorkerRunning
  /\ main.errors < MaxErrors
  /\ main' = [main EXCEPT !.errors = @ + 1, !.worker[1].running = FALSE]
  /\ response' = NoResponse
  /\ UNCHANGED <<cfg, jobs, nextId, processing, finished, obs>>

\* worker.on('error'): the worker emits an error, the listener logs it
WorkerError ==
  /\ WorkerRunning
  /\ main.errors < MaxErrors
  /\ main' = [main EXCEPT !.errors = @ + 1]
  /\ response' = NoResponse
  /\ UNCHANGED <<cfg, jobs, nextId, processing, finished, obs>>

\* the executing worker is lost: the attempt never reports and the lock lapses
Stall(j) ==
  /\ j \in processing
  /\ processing' = processing \ {j}
  /\ response' = NoResponse
  /\ UNCHANGED <<cfg, main, jobs, nextId, finished, obs>>

\* --------------------------------------------------------- the scheduler
\* variant: a delayed job is promoted before its timestamp has passed
PromoteBeforeDelay(j) ==
  /\ cfg.scheduler
  /\ j \in JobIds
  /\ jobs[j].state = "delayed"
  /\ jobs' = [jobs EXCEPT ![j].state = "waiting"]
  /\ response' = NoResponse
  /\ UNCHANGED <<cfg, main, nextId, processing, finished, obs>>

\* variant: delayed jobs are promoted whether or not a scheduler was created
PromoteWithoutScheduler(j) ==
  /\ j \in JobIds
  /\ jobs[j].state = "delayed"
  /\ jobs[j].delay = 0
  /\ jobs' = [jobs EXCEPT ![j].state = "waiting"]
  /\ response' = NoResponse
  /\ UNCHANGED <<cfg, main, nextId, processing, finished, obs>>

\* a delayed job whose timestamp has passed goes back to the wait list
Promote(j) ==
  /\ cfg.scheduler
  /\ j \in JobIds
  /\ jobs[j].state = "delayed"
  /\ jobs[j].delay = 0
  /\ jobs' = [jobs EXCEPT ![j].state = "waiting"]
  /\ response' = NoResponse
  /\ UNCHANGED <<cfg, main, nextId, processing, finished, obs>>

StalledReason == "job stalled more than allowable limit"

\* variant: the stall check takes every active job for stalled
StallCheckAnyActive(j) ==
  /\ cfg.scheduler
  /\ j \in JobIds
  /\ jobs[j].state = "active"
  /\ LET n == jobs[j].stalledCounter + 1
         js == [jobs EXCEPT ![j].stalledCounter = n]
     IN  jobs' = IF n > maxStalledCount
                 THEN KeepNewest([js EXCEPT ![j].state = "failed",
                                            ![j].failedReason = Some(StalledReason),
                                            ![j].finishedOn = finished + 1],
                                 "failed", maxFailedSubmitJobs)
                 ELSE [js EXCEPT ![j].state = "waiting"]
  /\ obs' = Restrict(obs, DOMAIN jobs')
  /\ finished' = FinishedAfter(j, jobs')
  /\ response' = NoResponse
  /\ UNCHANGED <<cfg, main, nextId, processing>>

\* variant: the stall check leaves alone a job that has stalled before
StallCheckOnce(j) ==
  /\ cfg.scheduler
  /\ j \in JobIds
  /\ jobs[j].state = "active"
  /\ j \notin processing
  /\ jobs[j].stalledCounter = 0
  /\ jobs' = [jobs EXCEPT ![j].stalledCounter = 1, ![j].state = "waiting"]
  /\ response' = NoResponse
  /\ UNCHANGED <<cfg, main, nextId, processing, finished, obs>>

\* an active job without a lock is put back to wait, or failed once it has
\* stalled more than maxStalledCount times
StallCheck(j) ==
  /\ cfg.scheduler
  /\ j \in JobIds
  /\ jobs[j].state = "active"
  /\ j \notin processing
  /\ LET n == jobs[j].stalledCounter + 1
         js == [jobs EXCEPT ![j].stalledCounter = n]
     IN  jobs' = IF n > maxStalledCount
                 THEN KeepNewest([js EXCEPT ![j].state = "failed",
                                            ![j].failedReason = Some(StalledReason),
                                            ![j].finishedOn = finished + 1],
                                 "failed", maxFailedSubmitJobs)
                 ELSE [js EXCEPT ![j].state = "waiting"]
  /\ obs' = Restrict(obs, DOMAIN jobs')
  /\ finished' = FinishedAfter(j, jobs')
  /\ response' = NoResponse
  /\ UNCHANGED <<cfg, main, nextId, processing>>

\* one tick of the clock: every pending delay timestamp comes one tick closer
Tick ==
  /\ \E j \in JobIds : jobs[j].state = "delayed" /\ jobs[j].delay > 0
  /\ jobs' = [ j \in JobIds |->
                IF jobs[j].state = "delayed" /\ jobs[j].delay > 0
                THEN [jobs[j] EXCEPT !.delay = @ - 1] ELSE jobs[j] ]
  /\ obs' = [ j \in JobIds |->
               IF jobs[j].state = "delayed" /\ jobs[j].delay > 0
               THEN [obs[j] EXCEPT !.waited = @ + 1] ELSE obs[j] ]
  /\ response' = NoResponse
  /\ UNCHANGED <<cfg, main, nextId, processing, finished>>

\* ---------------------------------------------------------------- enqueue
\* variant: the job data carries the transaction name as the tenant
NewJobSwapped(mspId, transactionName, submit, transactionArgs) ==
  [ name |-> transactionName \o " transaction",
    data |-> [ mspId |-> transactionName,
               transactionName |-> mspId,
               submit |-> submit,
               transactionArgs |-> transactionArgs,
               transactionIds |-> <<>>,
               transactionState |-> Undefined ],
    state |-> "waiting",
    attemptsMade |-> 0,
    returnvalue |-> Undefined,
    failedReason |-> Undefined,
    stalledCounter |-> 0,
    delay |-> 0,
    finishedOn |-> 0 ]

NewJob(mspId, transactionName, submit, transactionArgs) ==
  [ name |-> transactionName \o " transaction",
    data |-> [ mspId |-> mspId,
               transactionName |-> transactionName,
               submit |-> submit,
               transactionArgs |-> transactionArgs,
               transactionIds |-> <<>>,
               transactionState |-> Undefined ],
    state |-> "waiting",
    attemptsMade |-> 0,
    returnvalue |-> Undefined,
    failedReason |-> Undefined,
    stalledCounter |-> 0,
    delay |-> 0,
    finishedOn |-> 0 ]

NoObs ==
  [runs |-> 0, last |-> "", bytes |-> <<>>, err |-> NoError, waited |-> 0,
   savedState |-> Undefined, started |-> 0, submits |-> 0, evaluates |-> 0,
   calls |-> <<>>]

\* adds the job and returns its id, nextId
addTransactionJob(mspId, transactionName, submit, transactionArgs) ==
  /\ nextId <= MaxJobs
  /\ jobs' = jobs @@ (nextId :> NewJob(mspId, transactionName, submit, transactionArgs))
  /\ obs' = obs @@ (nextId :> NoObs)
  /\ nextId' = nextId + 1
  /\ UNCHANGED <<cfg, main, processing, finished>>

\* jobsRouter.post('/'), request body valid
PostJob(user, body) ==
  /\ main.listening
  /\ main.jobq
  /\ addTransactionJob(user, body.transaction, body.submit, body.arguments.items)
  /\ response' = [status |-> 202, request |-> "POST /", user |-> user,
                  sent |-> body,
                  body |-> [status |-> "Accepted", jobId |-> nextId]]

\* the validators of express-validator, each on String(value)
isBoolean(v) == v.text \in {"true", "false", "1", "0"}
notEmpty(str) == str # ""

\* validationResult(req): the fields of the body that fail their validation
ValidationErrors(body) ==
  (IF body.object THEN {} ELSE {"body"})
    \cup (IF notEmpty(body.transaction) THEN {} ELSE {"transaction"})
    \cup (IF isBoolean(body.submit) THEN {} ELSE {"submit"})
    \cup (IF body.arguments.array THEN {} ELSE {"arguments"})

\* jobsRouter.post('/'): 400 on a validation error, else the job is added
jobsRouterPost(user, body) ==
  IF ValidationErrors(body) # {}
  THEN /\ main.listening
       /\ response' = [status |-> 400, request |-> "POST /", user |-> user,
                       sent |-> body,
                       body |-> [status |-> "Bad Request",
                                 errors |-> ValidationErrors(body)]]
       /\ UNCHANGED <<cfg, main, jobs, nextId, processing, finished, obs>>
  ELSE PostJob(user, body)

\* ------------------------------------------------------------------ reads
\* Job.getState
getState(j) == jobs[j].state

\* the list or set of the queue that Queue.getJobs reads for a job type
TypeState(type) == IF type = "wait" THEN "waiting" ELSE type

GetJobsTypes ==
  <<"active", "completed", "delayed", "failed", "paused", "repeat", "wait",
    "waiting", "waiting-children">>

\* Queue.getJobs(types): the jobs held under any of the types
getJobs(types) ==
  UNION { JobsInState(TypeState(types[i])) : i \in 1..Len(types) }

getJobSummary(j) ==
  [ jobId |-> j,
    name |-> jobs[j].name,
    state |-> getState(j),
    attempts |-> jobs[j].attemptsMade,
    transactionIds |-> jobs[j].data.transactionIds,
    result |-> IF getState(j) \in {"completed", "failed"}
               THEN jobs[j].returnvalue
               ELSE Undefined ]

JobNotFoundError(jobId) ==
  [ name |-> "JobNotFoundError",
    message |-> "Job " \o ToString(jobId) \o " not found",
    jobId |-> jobId ]

\* variant: the owner of the job is not compared with the caller
getJobAnyTenant(mspId, jobId) ==
  IF jobId \notin JobIds
  THEN [error |-> Some(JobNotFoundError(jobId)), summary |-> Undefined]
  ELSE [error |-> Undefined, summary |-> Some(getJobSummary(jobId))]

\* getJob: the summary, or the error thrown
getJob(mspId, jobId) ==
  IF jobId \notin JobIds
  THEN [error |-> Some(JobNotFoundError(jobId)), summary |-> Undefined]
  ELSE IF jobs[jobId].data.mspId # mspId
  THEN [error |-> Some(JobNotFoundError(jobId)), summary |-> Undefined]
  ELSE [error |-> Undefined, summary |-> Some(getJobSummary(jobId))]

\* variant: the jobs are not filtered by owner
getAllJobsUnfiltered(mspId) ==
  { getJobSummary(j) : j \in getJobs(GetJobsTypes) }

\* getAllJobs: the summaries of the caller's jobs
getAllJobs(mspId) ==
  { getJobSummary(j) : j \in { k \in getJobs(GetJobsTypes) :
                                  jobs[k].data.mspId = mspId } }

\* jobsRouter.get('/:jobId')
GetJobRequest(user, jobId) ==
  /\ main.listening
  /\ main.jobq
  /\ LET r == getJob(user, jobId)
     IN  response' =
           IF r.error = Undefined
           THEN [status |-> 200, request |-> "GET /:jobId", user |-> user,
                 jobId |-> jobId, body |-> r.summary[1]]
           ELSE IF r.error[1].name = "JobNotFoundError"
           THEN [status |-> 404, request |-> "GET /:jobId", user |-> user,
                 jobId |-> jobId, body |-> [status |-> "Not Found"]]
           ELSE [status |-> 500, request |-> "GET /:jobId", user |-> user,
                 jobId |-> jobId, body |-> [status |-> "Internal Server Error"]]
  /\ UNCHANGED <<cfg, main, jobs, nextId, processing, finished, obs>>

\* jobsRouter.get('/')
GetAllJobsRequest(user) ==
  /\ main.listening
  /\ main.jobq
  /\ response' = [status |-> 200, request |-> "GET /", user |-> user,
                  body |-> getAllJobs(user)]
  /\ UNCHANGED <<cfg, main, jobs, nextId, processing, finished, obs>>

\* ---------------------------------------------------------------- start-up
\* texts of integer environment variables that are valid integers
IntOf == ("2" :> 2) @@ ("3" :> 3) @@ ("7" :> 7) @@ ("8" :> 8) @@ ("9999" :> 9999)

IsInt(text) == text \in DOMAIN IntOf

\* environments of the process; "" is a variable that is not set
Envs ==
  [ SUBMIT_JOB_ATTEMPTS : {"", "2", "lots"},
    SUBMIT_JOB_BACKOFF_TYPE : {"", "exponential", "jitter"},
    SUBMIT_JOB_BACKOFF_DELAY : {"", "9999", "short"},
    SUBMIT_JOB_CONCURRENCY : {"", "3", "lots"},
    MAX_COMPLETED_SUBMIT_JOBS : {"", "7", "lots"},
    MAX_FAILED_SUBMIT_JOBS : {"", "8", "lots"},
    SUBMIT_JOB_QUEUE_SCHEDULER : {"", "false", "11"},
    HLF_PEER_ADDRESS_ORG1 : {"", "localhost:7051"} ]

\* the variables config rejects: a required one that is not set, one with a
\* value that is not of its type
ConfigErrors(env) ==
  { v \in {"SUBMIT_JOB_ATTEMPTS", "SUBMIT_JOB_BACKOFF_DELAY", "SUBMIT_JOB_CONCURRENCY",
           "MAX_COMPLETED_SUBMIT_JOBS", "MAX_FAILED_SUBMIT_JOBS"} :
      env[v] # "" /\ ~IsInt(env[v]) }
    \cup (IF env.SUBMIT_JOB_BACKOFF_TYPE \in {"", "fixed", "exponential"}
          THEN {} ELSE {"SUBMIT_JOB_BACKOFF_TYPE"})
    \cup (IF env.SUBMIT_JOB_QUEUE_SCHEDULER \in {"", "true", "false", "TRUE", "FALSE"}
          THEN {} ELSE {"SUBMIT_JOB_QUEUE_SCHEDULER"})
    \cup (IF env.HLF_PEER_ADDRESS_ORG1 = "" THEN {"HLF_PEER_ADDRESS_ORG1"} ELSE {})

IntOr(text, default) == IF IsInt(text) THEN IntOf[text] ELSE default

\* the values config exports for an environment it accepts
Config(env) ==
  [ submitJobAttempts |-> IntOr(env.SUBMIT_JOB_ATTEMPTS, 5),
    submitJobBackoffType |->
      IF env.SUBMIT_JOB_BACKOFF_TYPE = "" THEN "fixed" ELSE env.SUBMIT_JOB_BACKOFF_TYPE,
    submitJobBackoffDelay |-> IntOr(env.SUBMIT_JOB_BACKOFF_DELAY, 3000),
    submitJobConcurrency |-> IntOr(env.SUBMIT_JOB_CONCURRENCY, 5),
    maxCompletedSubmitJobs |-> IntOr(env.MAX_COMPLETED_SUBMIT_JOBS, 1000),
    maxFailedSubmitJobs |-> IntOr(env.MAX_FAILED_SUBMIT_JOBS, 1000),
    submitJobQueueScheduler |->
      env.SUBMIT_JOB_QUEUE_SCHEDULER \in {"", "true", "TRUE"},
    peerAddressOrg1 |-> env.HLF_PEER_ADDRESS_ORG1 ]

\* no queue, worker or scheduler is configured yet
NoCfg == [attempts |-> 0, backoffType |-> "", scheduler |-> FALSE, concurrency |-> 0]

\* the process as it is started: nothing imported, nothing created
Started(env, noeviction) ==
  [ pc |-> "import", env |-> env, noeviction |-> noeviction, config |-> Undefined,
    contracts |-> <<>>, queue |-> Undefined, worker |-> Undefined,
    scheduler |-> FALSE, jobq |-> FALSE, listening |-> FALSE, errors |-> 0,
    closed |-> <<>> ]

\* the process with its start-up behind it, serving under configuration c
Serving(c) ==
  [ pc |-> "listening", env |-> <<>>, noeviction |-> TRUE, config |-> Undefined,
    queue |-> Some([attempts |-> c.attempts, type |-> c.backoffType,
                    delay |-> submitJobBackoffDelay,
                    removeOnComplete |-> maxCompletedSubmitJobs,
                    removeOnFail |-> maxFailedSubmitJobs]),
    contracts |-> Contracts,
    worker |-> Some([concurrency |-> c.concurrency, running |-> TRUE]),
    scheduler |-> c.scheduler, jobq |-> TRUE, listening |-> TRUE, errors |-> 0,
    closed |-> <<>> ]

\* what start-up steps leave alone
QueueUnchanged == UNCHANGED <<jobs, nextId, processing, finished, obs, response>>

\* import * as config: the module throws on an environment it rejects, and
\* the process ends before main is called
ImportConfig ==
  /\ main.pc = "import"
  /\ main' = IF ConfigErrors(main.env) # {}
             THEN [main EXCEPT !.pc = "exited"]
             ELSE [main EXCEPT !.pc = "checkRedis", !.config = Some(Config(main.env))]
  /\ UNCHANGED cfg
  /\ QueueUnchanged

\* variant: main goes on whatever the eviction policy of redis is
CheckRedisIgnoresPolicy ==
  /\ main.pc = "checkRedis"
  /\ main' = [main EXCEPT !.pc = "connect"]
  /\ UNCHANGED cfg
  /\ QueueUnchanged

\* main: throw unless redis has maxmemory-policy=noeviction
CheckRedis ==
  /\ main.pc = "checkRedis"
  /\ main' = [main EXCEPT !.pc = IF main.noeviction THEN "connect" ELSE "catch"]
  /\ UNCHANGED cfg
  /\ QueueUnchanged

\* variant: the server listens as soon as it is created
ConnectListens(ok) ==
  /\ main.pc = "connect"
  /\ main' = IF ok
             THEN [main EXCEPT !.pc = "initJobQueue", !.contracts = Contracts,
                               !.listening = TRUE]
             ELSE [main EXCEPT !.pc = "catch"]
  /\ UNCHANGED cfg
  /\ QueueUnchanged

\* main: create the server, connect to both peers and store their contracts,
\* fetch the chaincode metadata; any of it can throw
Connect(ok) ==
  /\ main.pc = "connect"
  /\ main' = IF ok
             THEN [main EXCEPT !.pc = "initJobQueue", !.contracts = Contracts]
             ELSE [main EXCEPT !.pc = "catch"]
  /\ UNCHANGED cfg
  /\ QueueUnchanged

\* variant: the queue is created with the retention caps interchanged
InitJobQueueSwapsCaps ==
  /\ main.pc = "initJobQueue"
  /\ LET c == main.config[1]
     IN  /\ main' = [main EXCEPT
                       !.pc = "initJobQueueWorker",
                       !.queue = Some([attempts |-> c.submitJobAttempts,
                                       type |-> c.submitJobBackoffType,
                                       delay |-> c.submitJobBackoffDelay,
                                       removeOnComplete |-> c.maxFailedSubmitJobs,
                                       removeOnFail |-> c.maxCompletedSubmitJobs])]
         /\ cfg' = [cfg EXCEPT !.attempts = c.submitJobAttempts,
                               !.backoffType = c.submitJobBackoffType]
  /\ QueueUnchanged

\* initJobQueue: the queue with its default job options
InitJobQueue ==
  /\ main.pc = "initJobQueue"
  /\ LET c == main.config[1]
     IN  /\ main' = [main EXCEPT
                       !.pc = "initJobQueueWorker",
                       !.queue = Some([attempts |-> c.submitJobAttempts,
                                       type |-> c.submitJobBackoffType,
                                       delay |-> c.submitJobBackoffDelay,
                                       removeOnComplete |-> c.maxCompletedSubmitJobs,
                                       removeOnFail |-> c.maxFailedSubmitJobs])]
         /\ cfg' = [cfg EXCEPT !.attempts = c.submitJobAttempts,
                               !.backoffType = c.submitJobBackoffType]
  /\ QueueUnchanged

\* initJobQueueWorker: the worker with its concurrency
InitJobQueueWorker ==
  /\ main.pc = "initJobQueueWorker"
  /\ LET c == main.config[1]
     IN  /\ main' = [main EXCEPT
                       !.pc = "initJobQueueScheduler",
                       !.worker = Some([concurrency |-> c.submitJobConcurrency,
                                        running |-> TRUE])]
         /\ cfg' = [cfg EXCEPT !.concurrency = c.submitJobConcurrency]
  /\ QueueUnchanged

\* main: the scheduler is created if config.submitJobQueueScheduler === true,
\* and the queue is stored in app.locals.jobq
InitJobQueueScheduler ==
  /\ main.pc = "initJobQueueScheduler"
  /\ LET c == main.config[1]
     IN  /\ main' = [main EXCEPT !.pc = "listen",
                                 !.scheduler = c.submitJobQueueScheduler,
                                 !.jobq = TRUE]
         /\ cfg' = [cfg EXCEPT !.scheduler = c.submitJobQueueScheduler]
  /\ QueueUnchanged

\* main: app.listen
Listen ==
  /\ main.pc = "listen"
  /\ main' = [main EXCEPT !.pc = "listening", !.listening = TRUE]
  /\ UNCHANGED cfg
  /\ QueueUnchanged

\* main: a step after the queue was created throws
Throw ==
  /\ main.pc \in {"initJobQueueWorker", "initJobQueueScheduler", "listen"}
  /\ main' = [main EXCEPT !.pc = "catch"]
  /\ UNCHANGED cfg
  /\ QueueUnchanged

\* main().catch: log the error, then close what was created
Catch ==
  /\ main.pc = "catch"
  /\ main' = [main EXCEPT !.pc = "closeScheduler"]
  /\ UNCHANGED cfg
  /\ QueueUnchanged

\* whether main created the component
Created(component) ==
  CASE component = "scheduler" -> main.scheduler
    [] component = "worker" -> IsDefined(main.worker)
    [] component = "queue" -> IsDefined(main.queue)

\* if (component != undefined) component.close(): the call, at position
\* `at` of the handler; the handler waits at `wait` if it made the call and
\* is at `next` otherwise
Close(component, at, wait, next) ==
  /\ main.pc = at
  /\ main' = IF Created(component)
             THEN [main EXCEPT !.pc = wait,
                               !.closed = Append(@, <<component, "close">>)]
             ELSE [main EXCEPT !.pc = next]
  /\ UNCHANGED cfg
  /\ QueueUnchanged

\* await component.close(): the close has finished
Closed(component, wait, next) ==
  /\ main.pc = wait
  /\ main' = [main EXCEPT !.pc = next,
                          !.closed = Append(@, <<component, "closed">>)]
  /\ UNCHANGED cfg
  /\ QueueUnchanged

\* variant: the scheduler's close is not awaited
CloseSchedulerNotAwaited ==
  /\ main.pc = "closeScheduler"
  /\ main' = IF Created("scheduler")
             THEN [main EXCEPT !.pc = "closeWorker",
                               !.closed = Append(@, <<"scheduler", "close">>)]
             ELSE [main EXCEPT !.pc = "closeWorker"]
  /\ UNCHANGED cfg
  /\ QueueUnchanged

CloseScheduler == Close("scheduler", "closeScheduler", "awaitScheduler", "closeWorker")

SchedulerClosed == Closed("scheduler", "awaitScheduler", "closeWorker")

CloseWorker == Close("worker", "closeWorker", "awaitWorker", "closeQueue")

WorkerClosed ==
  /\ main.pc = "awaitWorker"
  /\ main' = [main EXCEPT !.pc = "closeQueue",
                          !.closed = Append(@, <<"worker", "closed">>),
                          !.worker[1].running = FALSE]
  /\ UNCHANGED cfg
  /\ QueueUnchanged

CloseQueue == Close("queue", "closeQueue", "awaitQueue", "caught")

QueueClosed == Closed("queue", "awaitQueue", "caught")

\* ------------------------------------------------------------------ system
Init ==
  /\ cfg \in [attempts : 1..MaxAttempts, backoffType : BackoffTypes,
              scheduler : BOOLEAN, concurrency : {submitJobConcurrency}]
  /\ main = Serving(cfg)
  /\ jobs = <<>>
  /\ nextId = 1
  /\ processing = {}
  /\ finished = 0
  /\ obs = <<>>
  /\ response = NoResponse

Next ==
  \/ \E r \in JobRequests : PostJob(r.user, r)
  \/ \E j \in JobIds : Claim(j)
  \/ \E j \in JobIds : ProcessNoContract(j)
  \/ \E j \in JobIds, b \in LedgerResults : ProcessSuccess(j, b)
  \/ \E j \in JobIds, e \in LedgerErrors : ProcessError(j, e)
  \/ \E j \in JobIds : Stall(j)
  \/ \E j \in JobIds : Promote(j)
  \/ \E j \in JobIds : StallCheck(j)
  \/ Tick

Spec == Init /\ [][Next]_vars

\* the queue together with the read requests of the jobs router, under one
\* configuration (fixed backoff and the scheduler, as by default; one retry)
InitRead ==
  /\ Init
  /\ cfg = [attempts |-> 2, backoffType |-> "fixed", scheduler |-> TRUE,
            concurrency |-> submitJobConcurrency]

NextRead ==
  \/ Next
  \/ \E u \in RegisteredMspIds, id \in 1..MaxJobs : GetJobRequest(u, id)
  \/ \E u \in RegisteredMspIds : GetAllJobsRequest(u)

SpecRead == InitRead /\ [][NextRead]_vars

\* the queue with a scheduler and a running worker that go on working: a
\* free slot takes a waiting job, an attempt ends (every remote call has a
\* deadline), the clock advances, the scheduler promotes and checks for stalls
InitLive ==
  /\ Init
  /\ cfg.scheduler
  /\ cfg.attempts <= 3

Fairness ==
  /\ WF_vars(\E j \in JobIds : Claim(j))
  /\ WF_vars(\E j \in JobIds :
               \/ ProcessNoContract(j)
               \/ \E bytes \in LedgerResults : ProcessSuccess(j, bytes)
               \/ \E err \in LedgerErrors : ProcessError(j, err))
  /\ WF_vars(\E j \in JobIds : Promote(j))
  /\ WF_vars(\E j \in JobIds : StallCheck(j))
  /\ WF_vars(Tick)

SpecLive == InitLive /\ [][Next]_vars /\ Fairness

\* the queue holding one waiting job whose data carry a saved transaction
\* state and the id of the transaction it belongs to, as JobData provides for
SavedTransactionId == <<1, 0>>

InitResume ==
  /\ cfg = [attempts |-> 2, backoffType |-> "fixed", scheduler |-> TRUE,
            concurrency |-> submitJobConcurrency]
  /\ main = Serving(cfg)
  /\ jobs = (1 :> [NewJob(Org1MSP, "Transfer", JsBoolean(TRUE), <<"alice", "bob", "10">>)
                     EXCEPT !.data.transactionState = Some("state"),
                            !.data.transactionIds = <<SavedTransactionId>>])
  /\ nextId = 2
  /\ processing = {}
  /\ finished = 0
  /\ obs = (1 :> NoObs)
  /\ response = NoResponse

SpecResume == InitResume /\ [][Next]_vars

\* the start of the process, from any environment to listening or to its end
InitMain ==
  /\ main \in { Started(env, noeviction) : env \in Envs, noeviction \in BOOLEAN }
  /\ cfg = NoCfg
  /\ jobs = <<>>
  /\ nextId = 1
  /\ processing = {}
  /\ finished = 0
  /\ obs = <<>>
  /\ response = NoResponse

NextMain ==
  \/ ImportConfig
  \/ CheckRedis
  \/ \E ok \in BOOLEAN : Connect(ok)
  \/ InitJobQueue
  \/ InitJobQueueWorker
  \/ InitJobQueueScheduler
  \/ Listen
  \/ Throw
  \/ Catch
  \/ CloseScheduler
  \/ SchedulerClosed
  \/ CloseWorker
  \/ WorkerClosed
  \/ CloseQueue
  \/ QueueClosed

SpecMain == InitMain /\ [][NextMain]_vars

\* the queue together with create-job requests whose body is not as the API
\* describes it, under the configuration of SpecRead
NextPost ==
  \/ Next
  \/ \E r \in OddRequests : jobsRouterPost(r.user, r)

SpecPost == InitRead /\ [][NextPost]_vars

\* the queue under one configuration whose worker has a slot more, so that
\* the worker has two slots to fill from the same wait list
InitSlots ==
  /\ cfg = [attempts |-> 2, backoffType |-> "fixed", scheduler |-> TRUE,
            concurrency |-> submitJobConcurrency + 1]
  /\ main = Serving(cfg)
  /\ jobs = <<>>
  /\ nextId = 1
  /\ processing = {}
  /\ finished = 0
  /\ obs = <<>>
  /\ response = NoResponse

SpecSlots == InitSlots /\ [][Next]_vars

\* the start of the process followed by the requests it serves, from the
\* environments that set no variable but the scheduler's
ServeEnvs ==
  { env \in Envs :
      /\ env.SUBMIT_JOB_ATTEMPTS = ""
      /\ env.SUBMIT_JOB_BACKOFF_TYPE = ""
      /\ env.SUBMIT_JOB_BACKOFF_DELAY = ""
      /\ env.SUBMIT_JOB_CONCURRENCY = ""
      /\ env.MAX_COMPLETED_SUBMIT_JOBS = ""
      /\ env.MAX_FAILED_SUBMIT_JOBS = ""
      /\ env.HLF_PEER_ADDRESS_ORG1 # "" }

InitServe ==
  /\ InitMain
  /\ main.env \in ServeEnvs

NextServe ==
  \/ NextMain
  \/ \E r \in JobRequests : PostJob(r.user, r)
  \/ \E u \in RegisteredMspIds, id \in 1..MaxJobs : GetJobRequest(u, id)
  \/ \E u \in RegisteredMspIds : GetAllJobsRequest(u)

SpecServe == InitServe /\ [][NextServe]_vars

\* the queue under the configuration of SpecRead, with a worker that emits
\* error events (a lost connection, a lock that could not be renewed)
NextFault ==
  \/ Next
  \/ WorkerError

SpecFault == InitRead /\ [][NextFault]_vars

TypeOK ==
  /\ nextId \in 1..(MaxJobs + 1)
  /\ processing \subseteq JobIds
  /\ DOMAIN obs = JobIds
  /\ finished \in 0..MaxJobs

\* ================================================================ claims
Retryable == {"WithExistingTransactionId", "WithNewTransactionId"}

\* C1: in every reachable state, every job's attemptsMade is at most the
\* configured attempt limit, whatever claims, failures, retries and stall
\* re-deliveries it went through.
C1_AttemptsWithinLimit ==
  \A j \in JobIds : jobs[j].attemptsMade <= cfg.attempts

\* a job that stalled, was re-delivered and used up a limit of two or more
C1_Witness ==
  \E j \in JobIds :
    /\ cfg.attempts >= 2
    /\ jobs[j].attemptsMade = cfg.attempts
    /\ jobs[j].stalledCounter >= 1
    /\ jobs[j].state = "failed"

\* C2 as stated: a job whose first attempt fails with an error classified
\* None ends in state failed with attemptsMade = 1.
C2_Original ==
  \A j \in JobIds :
    (obs[j].runs = 1 /\ obs[j].last = "None")
      => (jobs[j].state = "failed" /\ jobs[j].attemptsMade = 1)

\* C2 amended: a job whose first attempt fails with an error classified None
\* ends in state completed, its result carrying the error text, with
\* attemptsMade = 0, for every attempt limit; it is not delivered again.
C2_FatalFirstAttemptCompletes ==
  \A j \in JobIds :
    (obs[j].runs = 1 /\ obs[j].last = "None")
      => /\ jobs[j].state = "completed"
         /\ jobs[j].attemptsMade = 0
         /\ j \notin processing
         /\ IsDefined(jobs[j].returnvalue)
         /\ IsDefined(jobs[j].returnvalue[1].transactionError)

C2_Witness ==
  \E j \in JobIds :
    /\ cfg.attempts >= 2
    /\ obs[j].runs = 1
    /\ obs[j].last = "None"
    /\ jobs[j].state = "completed"

\* C3: when an attempt fails with an error classified None, the job's result
\* has transactionError set to the non-empty text of that error and
\* transactionPayload absent.
C3_FatalErrorRecorded ==
  \A j \in JobIds :
    obs[j].last = "None"
      => /\ obs[j].err.name \o ": " \o obs[j].err.message # ""
         /\ jobs[j].returnvalue =
              Some([transactionError |->
                      Some(obs[j].err.name \o ": " \o obs[j].err.message),
                    transactionPayload |-> Undefined])

\* an unrecognised error ended a job that had been retried before
C3_Witness ==
  \E j \in JobIds :
    /\ obs[j].last = "None"
    /\ obs[j].err.kind = "Unknown"
    /\ obs[j].runs >= 2

C5_GetJobTenantIsolation ==
  /\ \A u \in MspIds, id \in 1..MaxJobs :
       IF id \notin JobIds \/ jobs[id].data.mspId # u
       THEN getJob(u, id) =
              [error |-> Some([name |-> "JobNotFoundError",
                               message |-> "Job " \o ToString(id) \o " not found",
                               jobId |-> id]),
               summary |-> Undefined]
       ELSE /\ getJob(u, id).error = Undefined
            /\ getJob(u, id).summary[1].jobId = id
  /\ response.status # 0 /\ response.request = "GET /:jobId"
       => IF response.jobId \notin JobIds
             \/ jobs[response.jobId].data.mspId # response.user
          THEN response.status = 404 /\ response.body = [status |-> "Not Found"]
          ELSE response.status = 200 /\ response.body.jobId = response.jobId

\* a caller was refused the job of another organisation
C5_Witness ==
  /\ response.status = 404
  /\ response.request = "GET /:jobId"
  /\ response.jobId \in JobIds
  /\ jobs[response.jobId].data.mspId # response.user

\* C6: GET / returns a summary for every job the queue holds, in any state,
\* whose data.mspId is the caller's, and for no other job.
C6_GetAllJobsScoped ==
  /\ \A u \in MspIds :
       { s.jobId : s \in getAllJobs(u) } =
         { j \in JobIds : jobs[j].data.mspId = u }
  /\ response.status # 0 /\ response.request = "GET /"
       => /\ { s.jobId : s \in response.body } =
               { j \in JobIds : jobs[j].data.mspId = response.user }
          /\ \A s \in response.body : s.state = jobs[s.jobId].state

\* the caller's delayed job is listed while the queue holds a job of another
\* organisation
C6_Witness ==
  /\ response.status = 200
  /\ response.request = "GET /"
  /\ \E s \in response.body : s.state = "delayed"
  /\ \E j \in JobIds : jobs[j].data.mspId # response.user

\* C7: a job whose attempt n failed with a retryable error is back in the
\* wait list, or claimed again, only after at least D ticks under fixed
\* backoff and D * 2^(n-1) ticks under exponential backoff.
C7_BackoffElapsed ==
  \A j \in JobIds :
    (obs[j].last \in Retryable /\ jobs[j].state \in {"waiting", "active"})
      => obs[j].waited >=
           (IF cfg.backoffType = "exponential"
            THEN submitJobBackoffDelay * 2 ^ (jobs[j].attemptsMade - 1)
            ELSE submitJobBackoffDelay)

\* under exponential backoff a job was claimed again after its third failure,
\* 4D after it
C7_Witness ==
  \E j \in JobIds :
    /\ cfg.backoffType = "exponential"
    /\ jobs[j].attemptsMade = 3
    /\ obs[j].last \in Retryable
    /\ jobs[j].state = "active"
    /\ obs[j].waited = 4 * submitJobBackoffDelay

\* the text the byte strings of LedgerResults stand for
ExpectedText(bytes) ==
  CASE bytes = <<>> -> ""
    [] bytes = <<79, 75>> -> "OK"

\* C9 as stated: a job whose first call succeeds ends completed with the
\* decoded payload, no error and attemptsMade = 1.
C9_Original ==
  \A j \in JobIds :
    (obs[j].runs = 1 /\ obs[j].last = "Success")
      => /\ jobs[j].state = "completed"
         /\ jobs[j].returnvalue =
              Some([transactionError |-> Undefined,
                    transactionPayload |-> Some(ExpectedText(obs[j].bytes))])
         /\ jobs[j].attemptsMade = 1

\* C9 amended: a job whose first call succeeds ends completed with the
\* decoded payload, no error and attemptsMade = 0.
C9_FirstCallSucceeds ==
  \A j \in JobIds :
    (obs[j].runs = 1 /\ obs[j].last = "Success")
      => /\ jobs[j].state = "completed"
         /\ jobs[j].returnvalue =
              Some([transactionError |-> Undefined,
                    transactionPayload |-> Some(ExpectedText(obs[j].bytes))])
         /\ jobs[j].attemptsMade = 0

\* the Transfer submit job of scenario A completed on its first call
C9_Witness ==
  \E j \in JobIds :
    /\ obs[j].runs = 1
    /\ obs[j].last = "Success"
    /\ obs[j].bytes = <<79, 75>>
    /\ Truthy(jobs[j].data.submit)
    /\ jobs[j].data.transactionName = "Transfer"
    /\ jobs[j].data.transactionArgs = <<"alice", "bob", "10">>
    /\ jobs[j].state = "completed"

\* C10 as stated: a job that succeeds after k >= 1 retryable failures ends
\* completed with attemptsMade = k + 1.
C10_Original ==
  \A j \in JobIds :
    (obs[j].last = "Success" /\ obs[j].runs >= 2)
      => (jobs[j].state = "completed" /\ jobs[j].attemptsMade = obs[j].runs)

\* C10 amended: a job that succeeds after k retryable failures, k below the
\* attempt limit, ends completed with attemptsMade = k.
C10_SucceedsAfterRetries ==
  \A j \in JobIds :
    obs[j].last = "Success"
      => /\ jobs[j].state = "completed"
         /\ jobs[j].attemptsMade = obs[j].runs - 1
         /\ jobs[j].attemptsMade < cfg.attempts
         /\ IsDefined(jobs[j].returnvalue[1].transactionPayload)

\* two retryable failures, then success
C10_Witness ==
  \E j \in JobIds :
    /\ obs[j].last = "Success"
    /\ obs[j].runs = 3
    /\ jobs[j].state = "completed"
    /\ cfg.scheduler

\* C11: a job whose attempts all ended in a retryable failure and which has
\* used up the attempt limit is in state failed with attemptsMade equal to
\* the limit and the message of its last error as its failure reason; a job
\* that is delayed after a retryable failure has attempts left.
C11_ExhaustedRetriesFail ==
  \A j \in JobIds :
    /\ (obs[j].last \in Retryable /\ obs[j].runs = cfg.attempts)
         => /\ jobs[j].state = "failed"
            /\ jobs[j].attemptsMade = cfg.attempts
            /\ jobs[j].failedReason = Some(obs[j].err.message)
            /\ j \notin processing
    /\ (obs[j].last \in Retryable /\ jobs[j].state = "delayed")
         => jobs[j].attemptsMade < cfg.attempts

\* three retryable failures under a limit of three
C11_Witness ==
  \E j \in JobIds :
    /\ cfg.attempts = 3
    /\ obs[j].runs = 3
    /\ obs[j].last \in Retryable
    /\ jobs[j].state = "failed"
    /\ jobs[j].attemptsMade = 3

PayloadSet(j) ==
  IsDefined(jobs[j].returnvalue) /\ IsDefined(jobs[j].returnvalue[1].transactionPayload)

ErrorSet(j) ==
  IsDefined(jobs[j].returnvalue) /\ IsDefined(jobs[j].returnvalue[1].transactionError)

\* C12 as stated: every job in completed or failed has exactly one of the
\* payload and the error text set in its result; every job in waiting,
\* delayed or active has neither.
C12_Original ==
  \A j \in JobIds :
    IF jobs[j].state \in {"completed", "failed"}
    THEN PayloadSet(j) # ErrorSet(j)
    ELSE ~PayloadSet(j) /\ ~ErrorSet(j)

\* C12 amended: a completed job has a result with at most one of the payload
\* and the error text set, and with neither set exactly when its tenant had
\* no contract; a failed job has no result, its error being kept as the
\* failure reason; a job in waiting, delayed or active has no result.
C12_ResultShape ==
  \A j \in JobIds :
    /\ jobs[j].state = "completed"
         => /\ IsDefined(jobs[j].returnvalue)
            /\ ~(PayloadSet(j) /\ ErrorSet(j))
            /\ (~PayloadSet(j) /\ ~ErrorSet(j)) <=> (obs[j].last = "NoContract")
    /\ jobs[j].state = "failed"
         => /\ jobs[j].returnvalue = Undefined
            /\ IsDefined(jobs[j].failedReason)
    /\ jobs[j].state \in {"waiting", "delayed", "active"}
         => jobs[j].returnvalue = Undefined

\* a failed job without a result next to a completed job with the error set
C12_Witness ==
  \E j, k \in JobIds :
    /\ jobs[j].state = "failed"
    /\ jobs[j].returnvalue = Undefined
    /\ jobs[k].state = "completed"
    /\ ErrorSet(k)

\* C13: a job whose tenant has no contract is ended by its first attempt:
\* it is completed with the empty result, no submit and no evaluate call was
\* made for it, no attempt was counted and it is not run again, whatever the
\* attempt limit.
C13_NoContractEndsJob ==
  \A j \in JobIds :
    jobs[j].data.mspId \notin RegisteredMspIds
      => /\ obs[j].submits = 0 /\ obs[j].evaluates = 0
         /\ obs[j].runs <= 1
         /\ obs[j].runs = 1
              => /\ obs[j].last = "NoContract"
                 /\ jobs[j].state = "completed"
                 /\ jobs[j].returnvalue = Some(NoContractResult)
                 /\ jobs[j].attemptsMade = 0
                 /\ j \notin processing

\* the attempt of a job without contract has run, attempts being left over
C13_Witness ==
  \E j \in JobIds :
    /\ jobs[j].data.mspId \notin RegisteredMspIds
    /\ obs[j].runs = 1
    /\ cfg.attempts >= 2
    /\ cfg.scheduler

\* C14 as stated: a job whose tenant has no contract ends in state failed and
\* its result carries the error text.
C14_Original ==
  \A j \in JobIds :
    obs[j].last = "NoContract"
      => (jobs[j].state = "failed" /\ ErrorSet(j))

\* C14 amended: a job whose tenant has no contract ends in state completed,
\* not failed, and carries no error text: neither in its result, whose two
\* fields are absent, nor as a failure reason.
C14_NoContractCompletes ==
  \A j \in JobIds :
    obs[j].last = "NoContract"
      => /\ jobs[j].state = "completed"
         /\ ~ErrorSet(j)
         /\ ~PayloadSet(j)
         /\ jobs[j].failedReason = Undefined

\* a job without contract is completed while a job with a contract failed
C14_Witness ==
  \E j, k \in JobIds :
    /\ obs[j].last = "NoContract"
    /\ jobs[j].state = "completed"
    /\ jobs[k].state = "failed"

\* C15: the worker never has more jobs in execution than its concurrency,
\* and while all its slots are busy every waiting job stays waiting over
\* every step.
C15_ConcurrencyBound ==
  /\ [](Cardinality(processing) <= cfg.concurrency)
  /\ [][ \A j \in JobIds :
           (jobs[j].state = "waiting" /\ Cardinality(processing) = cfg.concurrency)
             => (j \in DOMAIN jobs' /\ jobs'[j].state = "waiting") ]_vars

\* all slots are busy and a job is waiting
C15_Witness ==
  /\ Cardinality(processing) = cfg.concurrency
  /\ \E j \in JobIds : jobs[j].state = "waiting"

\* attempts of job j that were started and have neither ended nor been
\* declared stalled
InFlight(j) == obs[j].started - obs[j].runs - jobs[j].stalledCounter

\* C16: of every job at most one attempt is in flight, that is started and
\* neither ended nor declared stalled, and one is in flight exactly while the
\* job is active; a job held by a worker slot is active, and a job enters a
\* slot only from state waiting, with no attempt of it in flight.
C16_SingleExecution ==
  /\ [](\A j \in JobIds :
          /\ InFlight(j) \in {0, 1}
          /\ (InFlight(j) = 1) <=> (jobs[j].state = "active")
          /\ j \in processing => jobs[j].state = "active")
  /\ [][ \A j \in processing' \ processing :
           /\ j \in JobIds
           /\ jobs[j].state = "waiting"
           /\ InFlight(j) = 0 ]_vars

\* two slots are busy with two jobs, one of them on the attempt that
\* followed a stalled one
C16_Witness ==
  \E j, k \in processing :
    /\ j # k
    /\ obs[j].started = 2
    /\ jobs[j].stalledCounter = 1
    /\ obs[j].runs = 0
    /\ obs[k].started = 1

\* an attempt of job j ends in this step
AttemptEnds(j) == j \in DOMAIN obs' /\ obs'[j].runs = obs[j].runs + 1

\* job j, still in the queue after this step, keeps its state
SameState(j) == j \in DOMAIN jobs' /\ jobs'[j].state = jobs[j].state

\* job j goes from state `from` to state `to` in this step
Moves(j, from, to) ==
  /\ jobs[j].state = from
  /\ j \in DOMAIN jobs'
  /\ jobs'[j].state = to

\* a completed or failed job stays as it is until it is evicted
Absorbing(j) ==
  jobs[j].state \in {"completed", "failed"}
    => (j \notin DOMAIN jobs' \/ jobs'[j].state = jobs[j].state)

\* C17 as stated: every state change of a job is one of waiting->active,
\* active->completed on success, active->failed on a permanent failure or
\* on a retryable failure with the attempts exhausted, active->delayed on a
\* retryable failure with attempts left, delayed->waiting once the delay
\* has elapsed, active->waiting on a stall; completed and failed are
\* absorbing except for eviction.
C17_Original ==
  [][ \A j \in JobIds :
        /\ Absorbing(j)
        /\ \/ j \notin DOMAIN jobs'
           \/ SameState(j)
           \/ Moves(j, "waiting", "active")
           \/ /\ Moves(j, "active", "completed")
              /\ AttemptEnds(j) /\ obs'[j].last = "Success"
           \/ /\ Moves(j, "active", "failed")
              /\ AttemptEnds(j)
              /\ \/ obs'[j].last = "None"
                 \/ obs'[j].last \in Retryable /\ jobs'[j].attemptsMade = cfg.attempts
           \/ /\ Moves(j, "active", "delayed")
              /\ AttemptEnds(j)
              /\ obs'[j].last \in Retryable /\ jobs'[j].attemptsMade < cfg.attempts
           \/ /\ Moves(j, "delayed", "waiting")
              /\ jobs[j].delay = 0
           \/ /\ Moves(j, "active", "waiting")
              /\ j \notin processing ]_vars

\* C17 amended: every state change of a job is one of waiting->active,
\* active->completed when an attempt ends in success, in a permanent failure
\* or for want of a contract, active->failed when an attempt ends in a
\* retryable failure with the attempts exhausted or when the job has stalled
\* more than maxStalledCount times, active->delayed on a retryable failure
\* with attempts left, delayed->waiting once the delay has elapsed,
\* active->waiting on a stall within the count; completed and failed are
\* absorbing except for eviction.
C17_StateChanges ==
  [][ \A j \in JobIds :
        /\ Absorbing(j)
        /\ \/ j \notin DOMAIN jobs'
           \/ SameState(j)
           \/ Moves(j, "waiting", "active")
           \/ /\ Moves(j, "active", "completed")
              /\ AttemptEnds(j)
              /\ obs'[j].last \in {"Success", "None", "NoContract"}
           \/ /\ Moves(j, "active", "failed")
              /\ \/ /\ AttemptEnds(j)
                    /\ obs'[j].last \in Retryable
                    /\ jobs'[j].attemptsMade = cfg.attempts
                 \/ /\ ~AttemptEnds(j)
                    /\ j \notin processing
                    /\ jobs'[j].stalledCounter > maxStalledCount
           \/ /\ Moves(j, "active", "delayed")
              /\ AttemptEnds(j)
              /\ obs'[j].last \in Retryable /\ jobs'[j].attemptsMade < cfg.attempts
           \/ /\ Moves(j, "delayed", "waiting")
              /\ jobs[j].delay = 0
           \/ /\ Moves(j, "active", "waiting")
              /\ j \notin processing
              /\ jobs'[j].stalledCounter <= maxStalledCount ]_vars

\* a job failed for stalling too often next to a job completed by a
\* permanent failure
C17_Witness ==
  \E j, k \in JobIds :
    /\ jobs[j].state = "failed"
    /\ jobs[j].failedReason = Some(StalledReason)
    /\ jobs[k].state = "completed"
    /\ obs[k].last = "None"

C19_NoSchedulerNoRetry ==
  ~cfg.scheduler =>
    \A j \in JobIds :
      /\ obs[j].started <= 1
      /\ obs[j].runs <= 1
      /\ jobs[j].stalledCounter = 0
      /\ (obs[j].last \in Retryable /\ cfg.attempts > 1)
           => (jobs[j].state = "delayed" /\ jobs[j].attemptsMade = 1)
      /\ (obs[j].started = 1 /\ obs[j].runs = 0) => jobs[j].state = "active"

\* without a scheduler: a job whose backoff has elapsed is still delayed and
\* a job whose worker was lost is still active
C19_Witness ==
  /\ ~cfg.scheduler
  /\ \E j, k \in JobIds :
       /\ jobs[j].state = "delayed"
       /\ jobs[j].delay = 0
       /\ obs[j].waited >= 1
       /\ jobs[k].state = "active"
       /\ k \notin processing

\* C20: a step that answers an enqueue request with 202 returns the id of a
\* job that was not in the queue before, adds that job and no other, and
\* leaves the other jobs as they were; the new job is waiting with
\* attemptsMade 0, no transaction ids, no transaction state, no result and no
\* failure reason, its name is the transaction name followed by
\* " transaction", and its data carry the tenant, the transaction name, the
\* submit flag and the arguments of the request, in their order.
C20_EnqueueAddsOneJob ==
  [][ response'.status = 202 =>
        LET id == response'.body.jobId
            sent == response'.sent
        IN  /\ id \notin DOMAIN jobs
            /\ DOMAIN jobs' = DOMAIN jobs \cup {id}
            /\ \A j \in DOMAIN jobs : jobs'[j] = jobs[j]
            /\ jobs'[id].state = "waiting"
            /\ jobs'[id].attemptsMade = 0
            /\ jobs'[id].returnvalue = Undefined
            /\ jobs'[id].failedReason = Undefined
            /\ jobs'[id].name = sent.transaction \o " transaction"
            /\ jobs'[id].data = [ mspId |-> response'.user,
                                  transactionName |-> sent.transaction,
                                  submit |-> sent.submit,
                                  transactionArgs |-> sent.arguments.items,
                                  transactionIds |-> <<>>,
                                  transactionState |-> Undefined ] ]_vars

\* the answer to a second enqueue request, with three ordered arguments
C20_Witness ==
  /\ response.status = 202
  /\ response.body.jobId = 2
  /\ 1 \in JobIds
  /\ Len(jobs[2].data.transactionArgs) = 3
  /\ jobs[2].state = "waiting"

\* a body that is no object, has no transaction name, has a submit flag that
\* is no boolean or has arguments that are no array
Malformed(body) ==
  \/ ~body.object
  \/ body.transaction = ""
  \/ body.submit.type # "boolean"
  \/ ~body.arguments.array

\* C21 as stated: a create-job request with a malformed body is answered
\* with 400 and leaves the queue as it was.
C21_Original ==
  [][ (response'.status # 0 /\ response'.request = "POST /"
         /\ Malformed(response'.sent))
        => (response'.status = 400 /\ jobs' = jobs /\ nextId' = nextId) ]_vars

\* C22: once the process listens, the options of its queue, worker and
\* scheduler are those of the environment: for each variable that is not set
\* the default (attempts 5, backoff fixed, delay 3000, concurrency 5, caps
\* 1000 and 1000, scheduler created), for each variable that is set to a
\* valid value that value.
C22_EffectiveConfiguration ==
  main.pc = "listening" /\ main.env # <<>> =>
    LET e == main.env
        q == main.queue[1]
        w == main.worker[1]
    IN  /\ e.SUBMIT_JOB_ATTEMPTS = "" => (q.attempts = 5 /\ cfg.attempts = 5)
        /\ e.SUBMIT_JOB_ATTEMPTS = "2" => (q.attempts = 2 /\ cfg.attempts = 2)
        /\ e.SUBMIT_JOB_BACKOFF_TYPE = "" => (q.type = "fixed" /\ cfg.backoffType = "fixed")
        /\ e.SUBMIT_JOB_BACKOFF_TYPE = "exponential"
             => (q.type = "exponential" /\ cfg.backoffType = "exponential")
        /\ e.SUBMIT_JOB_BACKOFF_DELAY = "" => q.delay = 3000
        /\ e.SUBMIT_JOB_BACKOFF_DELAY = "9999" => q.delay = 9999
        /\ e.SUBMIT_JOB_CONCURRENCY = "" => (w.concurrency = 5 /\ cfg.concurrency = 5)
        /\ e.SUBMIT_JOB_CONCURRENCY = "3" => (w.concurrency = 3 /\ cfg.concurrency = 3)
        /\ e.MAX_COMPLETED_SUBMIT_JOBS = "" => q.removeOnComplete = 1000
        /\ e.MAX_COMPLETED_SUBMIT_JOBS = "7" => q.removeOnComplete = 7
        /\ e.MAX_FAILED_SUBMIT_JOBS = "" => q.removeOnFail = 1000
        /\ e.MAX_FAILED_SUBMIT_JOBS = "8" => q.removeOnFail = 8
        /\ e.SUBMIT_JOB_QUEUE_SCHEDULER = "" => (main.scheduler /\ cfg.scheduler)
        /\ e.SUBMIT_JOB_QUEUE_SCHEDULER = "false" => (~main.scheduler /\ ~cfg.scheduler)

\* the process listens with the defaults but for the two retention caps
C22_Witness ==
  /\ main.pc = "listening"
  /\ main.env # <<>>
  /\ main.env.SUBMIT_JOB_ATTEMPTS = ""
  /\ main.env.SUBMIT_JOB_BACKOFF_TYPE = ""
  /\ main.env.SUBMIT_JOB_BACKOFF_DELAY = ""
  /\ main.env.SUBMIT_JOB_CONCURRENCY = ""
  /\ main.env.SUBMIT_JOB_QUEUE_SCHEDULER = ""
  /\ main.env.MAX_COMPLETED_SUBMIT_JOBS = "7"
  /\ main.env.MAX_FAILED_SUBMIT_JOBS = "8"

\* C23: a process whose environment lacks the required peer address or has
\* a backoff type other than fixed and exponential or an attempt limit that
\* is no integer, or whose redis does not have the noeviction policy, never
\* listens and never creates the queue, the worker or the scheduler.
C23_ConfigurationErrorFatal ==
  (main.env # <<>>
     /\ \/ main.env.HLF_PEER_ADDRESS_ORG1 = ""
        \/ main.env.SUBMIT_JOB_BACKOFF_TYPE = "jitter"
        \/ main.env.SUBMIT_JOB_ATTEMPTS = "lots"
        \/ ~main.noeviction)
    => /\ ~main.listening
       /\ main.pc \notin {"listen", "listening"}
       /\ main.queue = Undefined
       /\ main.worker = Undefined
       /\ ~main.scheduler
       /\ cfg = NoCfg

\* main has thrown on the eviction policy and its catch handler has run
C23_Witness ==
  /\ main.pc = "caught"
  /\ ~main.noeviction
  /\ main.closed = <<>>

\* the stall monitor acts on job j in this step
StallDeclared(j) ==
  j \in DOMAIN jobs' /\ jobs'[j].stalledCounter # jobs[j].stalledCounter

\* C24 as stated: every job the stall monitor acts on is returned to
\* waiting, with its stall counter incremented and attemptsMade unchanged,
\* and only a stalled job is returned to waiting from active.
C24_Original ==
  [][ \A j \in JobIds :
        /\ StallDeclared(j)
             => /\ jobs'[j].state = "waiting"
                /\ jobs'[j].stalledCounter = jobs[j].stalledCounter + 1
                /\ jobs'[j].attemptsMade = jobs[j].attemptsMade
        /\ Moves(j, "active", "waiting") => j \notin processing ]_vars

\* C24 amended: the stall monitor acts only with the scheduler, on an active
\* job that no worker slot holds; it increments the stall counter, leaves
\* attemptsMade unchanged and returns the job to waiting if the counter is
\* then at most maxStalledCount, else it fails the job for stalling more than
\* the allowable limit; a job goes from active to waiting only so.
C24_StallRecovery ==
  [][ \A j \in JobIds :
        /\ StallDeclared(j)
             => /\ cfg.scheduler
                /\ jobs[j].state = "active"
                /\ j \notin processing
                /\ jobs'[j].stalledCounter = jobs[j].stalledCounter + 1
                /\ jobs'[j].attemptsMade = jobs[j].attemptsMade
                /\ IF jobs'[j].stalledCounter <= maxStalledCount
                   THEN jobs'[j].state = "waiting"
                   ELSE /\ jobs'[j].state = "failed"
                        /\ jobs'[j].failedReason = Some(StalledReason)
        /\ Moves(j, "active", "waiting")
             => (j \notin processing /\ StallDeclared(j) /\ cfg.scheduler) ]_vars

\* a job is waiting again after the attempt that followed a retryable
\* failure stalled
C24_Witness ==
  \E j \in JobIds :
    /\ jobs[j].state = "waiting"
    /\ jobs[j].stalledCounter = 1
    /\ jobs[j].attemptsMade = 1
    /\ obs[j].started = 2

\* C25: with the scheduler, a worker that keeps taking jobs and attempts
\* that end, every job in the queue leads to that job being completed or
\* failed (from where it can only be evicted).
C25_EveryJobFinishes ==
  \A id \in 1..MaxJobs :
    (id \in JobIds) ~> (id \notin JobIds \/ jobs[id].state \in {"completed", "failed"})

\* a job has failed after it was delayed, promoted and run again
C25_Witness ==
  \E j \in JobIds :
    /\ cfg.scheduler
    /\ jobs[j].state = "failed"
    /\ obs[j].runs = 2
    /\ obs[j].started = 2
    /\ jobs[j].stalledCounter = 0

\* jobs of state st that the queue holds after this step
Retained(st) == { k \in DOMAIN jobs' : jobs'[k].state = st }

IsPrefix(a, b) == Len(a) <= Len(b) /\ SubSeq(b, 1, Len(a)) = a

Range(f) == { f[i] : i \in DOMAIN f }

C28_Original ==
  \A j \in JobIds :
    /\ obs[j].started = 0 => jobs[j].data.transactionIds = <<>>
    /\ \A i \in 1..Len(obs[j].calls) :
         obs[j].calls[i].proposal.transactionId \in Range(jobs[j].data.transactionIds)

Wanted(j) == IF jobs[j].data.submit = JsBoolean(TRUE) THEN "submit" ELSE "evaluate"

\* C30: for a job whose tenant has a contract, every attempt that ended
\* made one ledger call, a submit if the job's submit flag is true and an
\* evaluate if it is false, with the job's transaction name and its
\* arguments in their order; for a job with the flag false no submit is made.
C30_OneLedgerCall ==
  \A j \in JobIds :
    jobs[j].data.mspId \in RegisteredMspIds
      => /\ Len(obs[j].calls) = obs[j].runs
         /\ obs[j].submits + obs[j].evaluates = obs[j].runs
         /\ \A i \in 1..Len(obs[j].calls) :
              /\ obs[j].calls[i].fn = Wanted(j)
              /\ obs[j].calls[i].proposal.transactionName = jobs[j].data.transactionName
              /\ obs[j].calls[i].proposal.arguments = jobs[j].data.transactionArgs
         /\ jobs[j].data.submit = JsBoolean(FALSE) => obs[j].submits = 0
         /\ jobs[j].data.submit = JsBoolean(TRUE) => obs[j].evaluates = 0

\* an evaluate job and a submit job with three arguments have each run twice
C30_Witness ==
  \E j, k \in JobIds :
    /\ jobs[j].data.submit = JsBoolean(FALSE)
    /\ obs[j].evaluates = 2
    /\ jobs[k].data.submit = JsBoolean(TRUE)
    /\ obs[k].submits = 2
    /\ Len(obs[k].calls[2].proposal.arguments) = 3

\* C31 as stated: the summary a read request returns has a result if and
\* only if the job is completed or failed, and its state, attempts and
\* transaction ids are those of the job.
C31_Original ==
  (response.status = 200 /\ response.request = "GET /:jobId")
    => LET j == response.jobId
           summary == response.body
       IN  /\ IsDefined(summary.result) <=> (jobs[j].state \in {"completed", "failed"})
           /\ summary.state = jobs[j].state
           /\ summary.attempts = jobs[j].attemptsMade
           /\ summary.transactionIds = jobs[j].data.transactionIds

\* C32: once the worker has emitted an error event, it is still running,
\* and whenever a job waits and a slot is free it can take the job; the event
\* itself leaves the jobs and the slots as they were.
C32_WorkerErrorHandled ==
  /\ [](main.errors > 0 => WorkerRunning)
  /\ []((/\ main.errors > 0
         /\ JobsInState("waiting") # {}
         /\ Cardinality(processing) < cfg.concurrency)
          => ENABLED (\E j \in JobIds : Claim(j)))
  /\ [][main'.errors > main.errors
          => /\ jobs' = jobs
             /\ processing' = processing
             /\ main'.worker = main.worker]_vars

\* after an error event, a job waits and the worker is about to take it
C32_Witness ==
  /\ main.errors > 0
  /\ JobsInState("waiting") # {}
  /\ Cardinality(processing) < cfg.concurrency
  /\ ENABLED (\E j \in JobIds : Claim(j))

\* the calls and completions of a shutdown that closes all three components
CloseOrder ==
  << <<"scheduler", "close">>, <<"scheduler", "closed">>,
     <<"worker", "close">>, <<"worker", "closed">>,
     <<"queue", "close">>, <<"queue", "closed">> >>

IsCreated(event) == Created(event[1])

\* C33: at every point of a shutdown, what was called and what has finished
\* so far is the beginning of: scheduler closed and finished, worker closed
\* and finished, queue closed and finished, without the components that were
\* never created; when the handler ends all of it has happened.
C33_CloseOrder ==
  /\ IsPrefix(main.closed, SelectSeq(CloseOrder, IsCreated))
  /\ main.pc = "caught" => main.closed = SelectSeq(CloseOrder, IsCreated)

\* a shutdown that closed the scheduler, the worker and the queue
C33_Witness ==
  /\ main.pc = "caught"
  /\ main.closed = CloseOrder

\* C34: over every step, a job that stays in the queue keeps its name and
\* the tenant, transaction name, submit flag and arguments of its data; a job
\* that enters the queue has an id above every id in it; and the transaction
\* ids and the transaction state of a job change only in a step in which the
\* worker ends an attempt of that job.
C34_InputsImmutable ==
  [][/\ \A j \in JobIds \cap DOMAIN jobs' :
          /\ jobs'[j].name = jobs[j].name
          /\ jobs'[j].data.mspId = jobs[j].data.mspId
          /\ jobs'[j].data.transactionName = jobs[j].data.transactionName
          /\ jobs'[j].data.submit = jobs[j].data.submit
          /\ jobs'[j].data.transactionArgs = jobs[j].data.transactionArgs
          /\ (\/ jobs'[j].data.transactionIds # jobs[j].data.transactionIds
              \/ jobs'[j].data.transactionState # jobs[j].data.transactionState)
               => (j \in processing /\ j \notin processing')
     /\ \A j \in DOMAIN jobs' \ JobIds : \A k \in JobIds : k < j]_vars

\* a job that failed an attempt, was retried and completed, and is then read
\* by its owner, its data being those of its enqueue
C34_Witness ==
  /\ response.status = 200
  /\ response.request = "GET /:jobId"
  /\ response.jobId \in JobIds
  /\ jobs[response.jobId].state = "completed"
  /\ jobs[response.jobId].attemptsMade >= 1
  /\ obs[response.jobId].started >= 2
  /\ jobs[response.jobId].data.transactionArgs # <<>>

\* C35: whenever the server listens, the contracts of both organisations
\* are stored, the queue and the worker exist, the scheduler exists if the
\* configuration asks for it, and the queue is stored for the handlers; a
\* request is answered only by a listening server that has the queue, and
\* never with an internal server error.
C35_ListenLast ==
  /\ [](main.listening
          => /\ DOMAIN main.contracts = RegisteredMspIds
             /\ IsDefined(main.queue)
             /\ WorkerRunning
             /\ main.config[1].submitJobQueueScheduler => main.scheduler
             /\ main.jobq)
  /\ [](response.status # 500)
  /\ [][response' # response /\ response' # NoResponse
          => main.listening /\ main.jobq /\ IsDefined(main.queue)]_vars

\* a process that went through its start-up with a scheduler and has accepted
\* a job
C35_Witness ==
  /\ main.env \in ServeEnvs
  /\ main.listening
  /\ main.scheduler
  /\ response.status = 202
  /\ response.body.jobId \in JobIds

\* the certificate and the private key that the configuration holds for
\* an organisation
OwnIdentity(mspId) ==
  IF mspId = Org1MSP THEN createIdentity(Org1MSP, "certificateOrg1")
                     ELSE createIdentity(Org2MSP, "certificateOrg2")

OwnSigner(mspId) ==
  IF mspId = Org1MSP THEN createSigner("privateKeyOrg1")
                     ELSE createSigner("privateKeyOrg2")

\* C36 as stated: every ledger call made for a job is made with the identity
\* and the signer of the organisation that enqueued the job.
C36_Original ==
  \A j \in JobIds : \A i \in DOMAIN obs[j].calls :
    /\ obs[j].calls[i].proposal.identity = OwnIdentity(jobs[j].data.mspId)
    /\ obs[j].calls[i].proposal.signer = OwnSigner(jobs[j].data.mspId)

====
